---- MODULE Spec2Model ----
(***************************************************************************)
(* A model of the blackjack round engine of main.py: the shoe (Deck), the  *)
(* hand arithmetic (Hand), the participant (Player: bet sizing, Hi-Lo      *)
(* count, decision tables) and the round state machine                     *)
(* (Blackjack.play_hand).                                                  *)
(*                                                                         *)
(* A card is modelled by its point value 2..11: the suit is never read,    *)
(* and the rank is read only through Card.get_value and through the test   *)
(* rank == 'A', which holds exactly for the value 11.  The value 10 stands *)
(* for the four ranks 10, J, Q, K.  The shuffled list Deck.cards is kept   *)
(* as the number of cards of each value still in it; np.random.shuffle     *)
(* makes every order possible, so the card at the front is any value that  *)
(* is still present.                                                       *)
(*                                                                         *)
(* Money is kept in units of 1/Scale, so that the 1.5 payout of main.py    *)
(* stays exact in integers over the rounds the model plays.                *)
(***************************************************************************)
EXTENDS Integers, Sequences, FiniteSets, TLC

\* ------------------------------------------------------------- bounds

\* How many times play_hand is called in one run.
MaxRounds == 2

\* The game is built with num_decks in 0..MaxDecks.
MaxDecks == 1

\* The shuffles explored: in the first round the cards that come to the
\* front of the shoe are a low card, a ten or an Ace, in the later rounds a
\* low card or a ten, and of the fives and of the Aces at most MaxSame come
\* to the front of one shoe; when no such card is left the front card is
\* any value still present.
MaxSame == 4

ShuffleValues(r) == IF r <= 1 THEN {5, 10, 11} ELSE {5, 10}

\* The longest hand built when a Hand is used on its own.
MaxHandLen == 4

\* The bankroll both participants start with (run_simulation gives both the
\* same starting_bankroll): small, so that bets and doubles meet it.
StartBankroll == 15

\* ---------------------------------------------------- program constants

MIN_BET == 10

MIN_BET_MULTIPLIER == 1

MAX_BET_MULTIPLIER == 5

BET_RAMP_START == 2

\* BLACKJACK_PAYOUT = 1.5, as the fraction PayoutNum / PayoutDen.
PayoutNum == 3

PayoutDen == 2

\* Cards in one deck (13 ranks x 4 suits); also the divisor of
\* get_decks_remaining.
DeckSize == 52

NumSuits == 4

\* The dealer draws while below this total.
DealerStand == 17

\* Money unit: one currency unit is Scale model units.
Scale == 2 ^ MaxRounds

\* ------------------------------------------------------------- cards

Values == 2..11

Ace == 11

\* Deck.deal's sentinel for an empty shoe.
None == 0

\* The participants of run_simulation, in seating order.
Strategies == <<"basic", "card_counter">>

Players == 1..Len(Strategies)

\* The dealer's place in the dealing order, after the participants.
DealerSeat == Len(Strategies) + 1

Max(a, b) == IF a >= b THEN a ELSE b

Min(a, b) == IF a <= b THEN a ELSE b

\* Deck.__init__: how many cards of value v are in num decks
\* (10, J, Q, K all have value 10).
CardsOfValue(num, v) == IF v = 10 THEN 4 * NumSuits * num ELSE NumSuits * num

NewDeck(num) == [v \in Values |-> CardsOfValue(num, v)]

\* len(self.cards): the cards of every value, 2 to 10 and the Ace
DeckLen(cs) ==
    cs[2] + cs[3] + cs[4] + cs[5] + cs[6] + cs[7] + cs[8] + cs[9] + cs[10]
    + cs[Ace]

\* int(len(self.cards) * 0.75)
CutPosition(n) == (n * 3) \div 4

\* Mutant of needs_shuffle: the comparison is strict.
needs_shuffle_strict(cs, cut) == DeckLen(cs) < cut

\* Mutant of needs_shuffle: the shoe is never rebuilt.
needs_shuffle_never(cs, cut) == FALSE

\* Deck.needs_shuffle
needs_shuffle(cs, cut) == DeckLen(cs) <= cut

\* Deck.deal: the values the front card may have; None when the shoe is empty.
Dealable(cs, num, r) ==
    IF DeckLen(cs) = 0 THEN {None}
    ELSE LET front == {v \in ShuffleValues(r) :
                          /\ cs[v] > 0
                          /\ v = 10 \/ CardsOfValue(num, v) - cs[v] < MaxSame}
         IN IF front # {} THEN front ELSE {v \in Values : cs[v] > 0}

\* self.cards.pop(0)
Pop(cs, c) == IF c = None THEN cs ELSE [cs EXCEPT ![c] = @ - 1]

\* ------------------------------------------------------------- hands

RECURSIVE SumValues(_)
SumValues(h) == IF h = <<>> THEN 0 ELSE Head(h) + SumValues(Tail(h))

RECURSIVE CountAces(_)
CountAces(h) ==
    IF h = <<>> THEN 0
    ELSE (IF Head(h) = Ace THEN 1 ELSE 0) + CountAces(Tail(h))

\* Mutant of Soften: one Ace at most is converted from 11 to 1.
Soften_once(total, aces) ==
    IF total > 21 /\ aces > 0 THEN total - 10 ELSE total

\* The while loop of Hand.get_value.
RECURSIVE Soften(_, _)
Soften(total, aces) ==
    IF total > 21 /\ aces > 0 THEN Soften(total - 10, aces - 1) ELSE total

\* Hand.get_value
get_value(h) == Soften(SumValues(h), CountAces(h))

\* Hand.is_blackjack
is_blackjack(h) == Len(h) = 2 /\ get_value(h) = 21

\* Mutant of is_busted: no total is a bust.
is_busted_never(h) == FALSE

\* Hand.is_busted
is_busted(h) == get_value(h) > 21

\* ------------------------------------------------------------ counting

\* Mutant of HiLo: the Ace is not counted.
HiLo_tens(v) ==
    IF v >= 2 /\ v <= 6 THEN 1
    ELSE IF v = 10 THEN -1
    ELSE 0

\* Player.update_count: the Hi-Lo weight of a card value.
HiLo(v) ==
    IF v >= 2 /\ v <= 6 THEN 1
    ELSE IF v >= 10 \/ v = Ace THEN -1
    ELSE 0

\* Player.update_count for participant p: the new running count.
update_count(p, rc, c) ==
    IF Strategies[p] # "card_counter" THEN rc ELSE rc + HiLo(c)

\* update_count reads card.get_value() only past the strategy test: a None
\* card raises there for a card_counter and is ignored for a basic player.
CountRaises(p, c) == c = None /\ Strategies[p] = "card_counter"

\* ------------------------------------------------------------- betting

\* A true count is the fraction num / den.
ZeroCount == [num |-> 0, den |-> 1]

\* running_count / max(1, decks_remaining), decks_remaining = n / 52
TrueCount(rc, n) == [num |-> rc * DeckSize, den |-> Max(DeckSize, n)]

\* Mutant of RampStarts: the ramp starts only above BET_RAMP_START.
RampStarts_strict(tc) == tc.num > BET_RAMP_START * tc.den

\* self.true_count >= BET_RAMP_START
RampStarts(tc) == tc.num >= BET_RAMP_START * tc.den

\* min(MAX_BET_MULTIPLIER, max(MIN_BET_MULTIPLIER, int(self.true_count)));
\* int() truncates toward zero.
BetMultiplier(tc) ==
    LET t == IF tc.num >= 0 THEN tc.num \div tc.den
             ELSE -((-tc.num) \div tc.den)
    IN Min(MAX_BET_MULTIPLIER, Max(MIN_BET_MULTIPLIER, t))

\* Player.place_bet: the true count the participant holds afterwards.
BetTrueCount(p, rc, oldtc, n) ==
    IF Strategies[p] = "card_counter" THEN TrueCount(rc, n) ELSE oldtc

\* Player.place_bet: current_bet, before and after the bankroll clamp.
WantedBet(p, rc, n) ==
    IF Strategies[p] = "card_counter" /\ RampStarts(TrueCount(rc, n))
    THEN MIN_BET * Scale * BetMultiplier(TrueCount(rc, n))
    ELSE MIN_BET * Scale

\* Mutant of PlacedBet: the bet is not clamped to the bankroll.
PlacedBet_unclamped(p, rc, n, bank) == WantedBet(p, rc, n)

PlacedBet(p, rc, n, bank) == Min(WantedBet(p, rc, n), bank)

\* Player.place_bet: the bankroll afterwards.
BankAfterBet(bet, bank) == IF bet > 0 THEN bank - bet ELSE bank

\* ------------------------------------------------------------ decisions

\* has_ace and player_total <= 21 (make_decision's soft_hand)
soft_hand(h) == (\E i \in 1..Len(h) : h[i] = Ace) /\ get_value(h) <= 21

\* The soft branch of Player.make_decision.
SoftDecision(total, n, up) ==
    IF total >= 19 THEN "stand"
    ELSE IF total = 18 THEN
        IF up \in {2, 7, 8} THEN "stand"
        ELSE IF up \in {3, 4, 5, 6} THEN (IF n = 2 THEN "double" ELSE "stand")
        ELSE "hit"
    ELSE IF total = 17 THEN
        IF up \in {3, 4, 5, 6} THEN (IF n = 2 THEN "double" ELSE "hit")
        ELSE "hit"
    ELSE IF total \in {15, 16} THEN
        IF up \in {4, 5, 6} THEN (IF n = 2 THEN "double" ELSE "hit")
        ELSE "hit"
    ELSE IF total \in {13, 14} THEN
        IF up \in {5, 6} THEN (IF n = 2 THEN "double" ELSE "hit")
        ELSE "hit"
    ELSE "hit"

\* The hard branch of Player.make_decision.
HardDecision(total, n, up) ==
    IF total >= 17 THEN "stand"
    ELSE IF total = 16 THEN (IF up \in {2, 3, 4, 5, 6} THEN "stand" ELSE "hit")
    ELSE IF total = 15 THEN (IF up \in {2, 3, 4, 5, 6} THEN "stand" ELSE "hit")
    ELSE IF total = 14 THEN (IF up \in {2, 3, 4, 5, 6} THEN "stand" ELSE "hit")
    ELSE IF total = 13 THEN (IF up \in {2, 3, 4, 5, 6} THEN "stand" ELSE "hit")
    ELSE IF total = 12 THEN (IF up \in {4, 5, 6} THEN "stand" ELSE "hit")
    ELSE IF total = 11 THEN (IF n = 2 THEN "double" ELSE "hit")
    ELSE IF total = 10 THEN
        IF up <= 9 THEN (IF n = 2 THEN "double" ELSE "hit") ELSE "hit"
    ELSE IF total = 9 THEN
        IF up \in {3, 4, 5, 6} THEN (IF n = 2 THEN "double" ELSE "hit")
        ELSE "hit"
    ELSE "hit"

\* Player.make_decision
make_decision(h, up) ==
    IF Len(h) = 2 /\ get_value(h) = 21 THEN "stand"
    ELSE IF soft_hand(h) THEN SoftDecision(get_value(h), Len(h), up)
    ELSE HardDecision(get_value(h), Len(h), up)

\* ------------------------------------------------------------- payouts

\* player.current_bet + player.current_bet * BLACKJACK_PAYOUT
BlackjackWinnings(bet) == bet + (bet * PayoutNum) \div PayoutDen

\* Mutant of PeekWinnings: the bet is returned without the blackjack test.
PeekWinnings_all(h, bet) == bet

\* The dealer-blackjack branch of play_hand: what a hand is paid.
PeekWinnings(h, bet) == IF is_blackjack(h) THEN bet ELSE 0

\* Mutant of SettleWinnings: a tie is paid like a win.
SettleWinnings_tie(h, bet, dealer_value, dealer_busted) ==
    IF is_busted(h) THEN 0
    ELSE IF dealer_busted \/ get_value(h) >= dealer_value THEN bet * 2
    ELSE 0

\* "Determine winners": what a hand is paid at settlement.
SettleWinnings(h, bet, dealer_value, dealer_busted) ==
    IF is_busted(h) THEN 0
    ELSE IF dealer_busted \/ get_value(h) > dealer_value THEN bet * 2
    ELSE IF get_value(h) = dealer_value THEN bet
    ELSE 0

\* Mutant of AdditionalBet: the double is not clamped to the bankroll.
AdditionalBet_unclamped(bet, bank) == bet

\* min(player.current_bet, player.bankroll) on double
AdditionalBet(bet, bank) == Min(bet, bank)

\* ------------------------------------------------------------- state

VARIABLES
    num_decks,          \* Blackjack.num_decks
    cards,              \* Blackjack.deck.cards: how many cards of each value
    cut_card_position,  \* Blackjack.deck.cut_card_position
    dealer,             \* Blackjack.dealer.cards
    hands,              \* player.hands[0].cards of each participant
    bankroll,           \* player.bankroll, in units of 1/Scale
    current_bet,        \* player.current_bet, in units of 1/Scale
    running_count,      \* player.running_count
    true_count,         \* player.true_count, a fraction
    pc,                 \* where play_hand stands
    round,              \* how many times play_hand was entered
    dealt,              \* cards handed out so far by deal_initial_cards
    turn,               \* the participant whose hand is being played
    start_bankroll,     \* history: the bankrolls when play_hand was entered
    start_count,        \* history: the counts after the shuffle check
    observed,           \* history: the cards each card_counter counted this round
    probe               \* a Hand used on its own, and the last call made on it

vars == <<num_decks, cards, cut_card_position, dealer, hands, bankroll,
          current_bet, running_count, true_count, pc, round, dealt, turn,
          start_bankroll, start_count, observed, probe>>

\* Hand.__init__
NewHand == [cards |-> <<>>, call |-> "init", up |-> 0, value |-> 0,
            decision |-> "none"]

\* Blackjack.__init__, Player.__init__ and the add_player calls of
\* run_simulation.
Init ==
    /\ probe = NewHand
    /\ num_decks \in 0..MaxDecks
    /\ cards = NewDeck(num_decks)
    /\ cut_card_position = CutPosition(DeckLen(NewDeck(num_decks)))
    /\ dealer = <<>>
    /\ hands = [p \in Players |-> <<>>]
    /\ bankroll = [p \in Players |-> StartBankroll * Scale]
    /\ current_bet = [p \in Players |-> MIN_BET * Scale]
    /\ running_count = [p \in Players |-> 0]
    /\ true_count = [p \in Players |-> ZeroCount]
    /\ pc = "idle"
    /\ round = 0
    /\ dealt = 0
    /\ turn = 0
    /\ start_bankroll = bankroll
    /\ start_count = running_count
    /\ observed = [p \in Players |-> <<>>]

\* A card_counter's record of a counted card: whose card and which one.
Seen(p, seat, idx) ==
    IF Strategies[p] = "card_counter" THEN <<<<seat, idx>>>> ELSE <<>>

\* play_hand, lines 270-276: the shuffle check.
ReshuffleCheck ==
    /\ pc = "idle"
    /\ round < MaxRounds
    /\ round' = round + 1
    /\ start_bankroll' = bankroll
    /\ IF needs_shuffle(cards, cut_card_position)
       THEN /\ cards' = NewDeck(num_decks)
            /\ cut_card_position' = CutPosition(DeckLen(NewDeck(num_decks)))
            /\ running_count' = [p \in Players |->
                   IF Strategies[p] = "card_counter" THEN 0 ELSE running_count[p]]
            /\ true_count' = [p \in Players |->
                   IF Strategies[p] = "card_counter" THEN ZeroCount ELSE true_count[p]]
       ELSE UNCHANGED <<cards, cut_card_position, running_count, true_count>>
    /\ start_count' = running_count'
    /\ pc' = "bet"
    /\ UNCHANGED <<probe, num_decks, dealer, hands, bankroll, current_bet, dealt, turn,
                   observed>>

\* play_hand, lines 278-281: every participant places its bet.
PlaceBets ==
    /\ pc = "bet"
    /\ true_count' = [p \in Players |->
           BetTrueCount(p, running_count[p], true_count[p], DeckLen(cards))]
    /\ current_bet' = [p \in Players |->
           PlacedBet(p, running_count[p], DeckLen(cards), bankroll[p])]
    /\ bankroll' = [p \in Players |-> BankAfterBet(current_bet'[p], bankroll[p])]
    /\ pc' = "clear"
    /\ UNCHANGED <<probe, num_decks, cards, cut_card_position, dealer, hands,
                   running_count, round, dealt, turn, start_bankroll,
                   start_count, observed>>

\* deal_initial_cards, lines 249-252: the hands of the last round are dropped.
ClearHands ==
    /\ pc = "clear"
    /\ dealer' = <<>>
    /\ hands' = [p \in Players |-> <<>>]
    /\ observed' = [p \in Players |-> <<>>]
    /\ dealt' = 0
    /\ pc' = "deal"
    /\ UNCHANGED <<probe, num_decks, cards, cut_card_position, bankroll, current_bet,
                   running_count, true_count, round, turn, start_bankroll,
                   start_count>>

\* The seat that receives the next card of the initial deal, and whether it
\* is the first pass.
NextSeat == (dealt % DealerSeat) + 1

\* Mutant of FirstPass: both dealer cards are shown and counted.
FirstPass_both == TRUE

FirstPass == dealt < DealerSeat

\* The card being dealt is the last one of the second pass.
LastDealt == dealt + 1 = 2 * DealerSeat

\* deal_initial_cards, lines 257-259: one card to a participant.
DealToPlayer ==
    /\ pc = "deal"
    /\ NextSeat # DealerSeat
    /\ \E c \in Dealable(cards, num_decks, round) :
        LET p == NextSeat IN
        /\ cards' = Pop(cards, c)
        /\ hands' = [hands EXCEPT ![p] = Append(@, c)]
        /\ IF CountRaises(p, c)
           THEN /\ pc' = "crashed"
                /\ UNCHANGED <<running_count, observed>>
           ELSE /\ pc' = "deal"
                /\ running_count' = [running_count EXCEPT
                       ![p] = update_count(p, @, c)]
                /\ observed' = [observed EXCEPT
                       ![p] = @ \o Seen(p, p, Len(hands'[p]))]
    /\ dealt' = dealt + 1
    /\ UNCHANGED <<probe, num_decks, cut_card_position, dealer, bankroll, current_bet,
                   true_count, round, turn, start_bankroll, start_count>>

\* deal_initial_cards, lines 261-267: one card to the dealer; the first one
\* is counted by every participant.
DealToDealer ==
    /\ pc = "deal"
    /\ NextSeat = DealerSeat
    /\ \E c \in Dealable(cards, num_decks, round) :
        /\ cards' = Pop(cards, c)
        /\ dealer' = Append(dealer, c)
        /\ IF FirstPass /\ (\E p \in Players : CountRaises(p, c))
           THEN /\ pc' = "crashed"
                /\ UNCHANGED <<running_count, observed>>
           ELSE /\ pc' = IF LastDealt THEN "peek" ELSE "deal"
                /\ running_count' = [p \in Players |->
                       IF FirstPass THEN update_count(p, running_count[p], c)
                       ELSE running_count[p]]
                /\ observed' = [p \in Players |->
                       IF FirstPass
                       THEN observed[p] \o Seen(p, DealerSeat, Len(dealer'))
                       ELSE observed[p]]
    /\ dealt' = dealt + 1
    /\ UNCHANGED <<probe, num_decks, cut_card_position, hands, bankroll, current_bet,
                   true_count, round, turn, start_bankroll, start_count>>

\* play_hand, line 288: the dealer shows a ten or an Ace and has a blackjack.
DealerHasBlackjack ==
    /\ (dealer[1] = 10 \/ dealer[1] = Ace)
    /\ is_blackjack(dealer)

\* play_hand, lines 286-294: dealer blackjack ends the round.
DealerBlackjack ==
    /\ pc = "peek"
    /\ DealerHasBlackjack
    /\ bankroll' = [p \in Players |->
           bankroll[p] + PeekWinnings(hands[p], current_bet[p])]
    /\ pc' = "idle"
    /\ UNCHANGED <<probe, num_decks, cards, cut_card_position, dealer, hands,
                   current_bet, running_count, true_count, round, dealt, turn,
                   start_bankroll, start_count, observed>>

\* play_hand, lines 286-297: no dealer blackjack, the participants play.
NoDealerBlackjack ==
    /\ pc = "peek"
    /\ ~DealerHasBlackjack
    /\ pc' = "players"
    /\ turn' = 1
    /\ UNCHANGED <<probe, num_decks, cards, cut_card_position, dealer, hands, bankroll,
                   current_bet, running_count, true_count, round, dealt,
                   start_bankroll, start_count, observed>>

\* play_hand, lines 300-303: a natural blackjack is paid and the next
\* participant plays.
PlayerBlackjack ==
    /\ pc = "players"
    /\ turn \in Players
    /\ is_blackjack(hands[turn])
    /\ bankroll' = [bankroll EXCEPT
           ![turn] = @ + BlackjackWinnings(current_bet[turn])]
    /\ turn' = turn + 1
    /\ UNCHANGED <<probe, num_decks, cards, cut_card_position, dealer, hands,
                   current_bet, running_count, true_count, pc, round, dealt,
                   start_bankroll, start_count, observed>>

\* The decision of the participant at turn (dealer_upcard.get_value() is the
\* dealer's first card).
Decision == make_decision(hands[turn], dealer[1])

\* play_hand, lines 312-319: hit.  A None card raises at the next
\* get_value (in update_count or in is_busted).
PlayerHit ==
    /\ pc = "players"
    /\ turn \in Players
    /\ ~is_blackjack(hands[turn])
    /\ Decision = "hit"
    /\ \E c \in Dealable(cards, num_decks, round) :
        /\ cards' = Pop(cards, c)
        /\ hands' = [hands EXCEPT ![turn] = Append(@, c)]
        /\ IF c = None
           THEN /\ pc' = "crashed"
                /\ UNCHANGED <<running_count, observed, turn>>
           ELSE /\ pc' = "players"
                /\ running_count' = [running_count EXCEPT
                       ![turn] = update_count(turn, @, c)]
                /\ observed' = [observed EXCEPT
                       ![turn] = @ \o Seen(turn, turn, Len(hands'[turn]))]
                /\ turn' = IF is_busted(hands'[turn]) THEN turn + 1 ELSE turn
    /\ UNCHANGED <<probe, num_decks, cut_card_position, dealer, bankroll, current_bet,
                   true_count, round, dealt, start_bankroll, start_count>>

\* play_hand, lines 321-322: stand.
PlayerStand ==
    /\ pc = "players"
    /\ turn \in Players
    /\ ~is_blackjack(hands[turn])
    /\ Decision = "stand"
    /\ turn' = turn + 1
    /\ UNCHANGED <<probe, num_decks, cards, cut_card_position, dealer, hands, bankroll,
                   current_bet, running_count, true_count, pc, round, dealt,
                   start_bankroll, start_count, observed>>

\* play_hand, lines 324-333: double.
PlayerDouble ==
    /\ pc = "players"
    /\ turn \in Players
    /\ ~is_blackjack(hands[turn])
    /\ Decision = "double"
    /\ bankroll' = [bankroll EXCEPT
           ![turn] = @ - AdditionalBet(current_bet[turn], bankroll[turn])]
    /\ current_bet' = [current_bet EXCEPT
           ![turn] = @ + AdditionalBet(current_bet[turn], bankroll[turn])]
    /\ \E c \in Dealable(cards, num_decks, round) :
        /\ cards' = Pop(cards, c)
        /\ hands' = [hands EXCEPT ![turn] = Append(@, c)]
        /\ IF c = None
           THEN /\ pc' = "crashed"
                /\ UNCHANGED <<running_count, observed, turn>>
           ELSE /\ pc' = "players"
                /\ running_count' = [running_count EXCEPT
                       ![turn] = update_count(turn, @, c)]
                /\ observed' = [observed EXCEPT
                       ![turn] = @ \o Seen(turn, turn, Len(hands'[turn]))]
                /\ turn' = turn + 1
    /\ UNCHANGED <<probe, num_decks, cut_card_position, dealer, true_count, round,
                   dealt, start_bankroll, start_count>>

\* Mutant of dealer_play_needed: the dealer always takes a turn.
dealer_play_always == TRUE

\* play_hand, line 336
dealer_play_needed == \E p \in Players : ~is_busted(hands[p])

\* play_hand, lines 336-338: every hand is busted, the round is over.
DealerSkip ==
    /\ pc = "players"
    /\ turn = DealerSeat
    /\ ~dealer_play_needed
    /\ pc' = "idle"
    /\ UNCHANGED <<probe, num_decks, cards, cut_card_position, dealer, hands, bankroll,
                   current_bet, running_count, true_count, round, dealt, turn,
                   start_bankroll, start_count, observed>>

\* play_hand, lines 338-341: the dealer reveals the hole card.
DealerReveal ==
    /\ pc = "players"
    /\ turn = DealerSeat
    /\ dealer_play_needed
    /\ running_count' = [p \in Players |->
           update_count(p, running_count[p], dealer[2])]
    /\ observed' = [p \in Players |-> observed[p] \o Seen(p, DealerSeat, 2)]
    /\ pc' = "draw"
    /\ UNCHANGED <<probe, num_decks, cards, cut_card_position, dealer, hands, bankroll,
                   current_bet, true_count, round, dealt, turn, start_bankroll,
                   start_count>>

\* Mutant of dealer_must_draw: the dealer also draws on 17.
dealer_must_draw_on17(h) == get_value(h) <= DealerStand

\* play_hand, line 344: while self.dealer.get_value() < 17
dealer_must_draw(h) == get_value(h) < DealerStand

\* play_hand, lines 344-350: the dealer draws below 17; every participant
\* counts the card.
DealerDraw ==
    /\ pc = "draw"
    /\ dealer_must_draw(dealer)
    /\ \E c \in Dealable(cards, num_decks, round) :
        /\ cards' = Pop(cards, c)
        /\ dealer' = Append(dealer, c)
        /\ IF c = None
           THEN /\ pc' = "crashed"
                /\ UNCHANGED <<running_count, observed>>
           ELSE /\ pc' = "draw"
                /\ running_count' = [p \in Players |->
                       update_count(p, running_count[p], c)]
                /\ observed' = [p \in Players |->
                       observed[p] \o Seen(p, DealerSeat, Len(dealer'))]
    /\ UNCHANGED <<probe, num_decks, cut_card_position, hands, bankroll, current_bet,
                   true_count, round, dealt, turn, start_bankroll, start_count>>

\* play_hand, lines 352-369: the winners are paid.
Settle ==
    /\ pc = "draw"
    /\ ~dealer_must_draw(dealer)
    /\ bankroll' = [p \in Players |->
           bankroll[p] + SettleWinnings(hands[p], current_bet[p],
                                        get_value(dealer), is_busted(dealer))]
    /\ pc' = "idle"
    /\ UNCHANGED <<probe, num_decks, cards, cut_card_position, dealer, hands,
                   current_bet, running_count, true_count, round, dealt, turn,
                   start_bankroll, start_count, observed>>

Next ==
    \/ ReshuffleCheck
    \/ PlaceBets
    \/ ClearHands
    \/ DealToPlayer
    \/ DealToDealer
    \/ DealerBlackjack
    \/ NoDealerBlackjack
    \/ PlayerBlackjack
    \/ PlayerHit
    \/ PlayerStand
    \/ PlayerDouble
    \/ DealerSkip
    \/ DealerReveal
    \/ DealerDraw
    \/ Settle

Spec == Init /\ [][Next]_vars

\* ------------------------------------------------- a Hand on its own

\* Hand.add_card, with any card.
HandAddCard ==
    /\ Len(probe.cards) < MaxHandLen
    /\ \E c \in Values :
        probe' = [NewHand EXCEPT !.cards = Append(probe.cards, c),
                                 !.call = "add_card"]
    /\ UNCHANGED <<num_decks, cards, cut_card_position, dealer, hands, bankroll,
                   current_bet, running_count, true_count, pc, round, dealt,
                   turn, start_bankroll, start_count, observed>>

\* Hand.get_value
HandGetValue ==
    /\ probe.call = "add_card"
    /\ probe' = [probe EXCEPT !.call = "get_value",
                              !.value = get_value(probe.cards)]
    /\ UNCHANGED <<num_decks, cards, cut_card_position, dealer, hands, bankroll,
                   current_bet, running_count, true_count, pc, round, dealt,
                   turn, start_bankroll, start_count, observed>>

\* Player.make_decision on the hand, against any dealer upcard value.
HandDecision ==
    /\ probe.call = "add_card"
    /\ Len(probe.cards) >= 2
    /\ \E up \in Values :
        probe' = [probe EXCEPT !.call = "make_decision", !.up = up,
                               !.decision = make_decision(probe.cards, up)]
    /\ UNCHANGED <<num_decks, cards, cut_card_position, dealer, hands, bankroll,
                   current_bet, running_count, true_count, pc, round, dealt,
                   turn, start_bankroll, start_count, observed>>

HandNext == HandAddCard \/ HandGetValue \/ HandDecision

\* The state after construction, of a game built with one deck.
HandInit == Init /\ num_decks = 1

\* A Hand, with cards added in any order and queried at any point.
HandSpec == HandInit /\ [][HandNext]_vars

\* ------------------------------------------------------------- claims

Counters == {p \in Players : Strategies[p] = "card_counter"}

\* play_hand has returned at least once and is not running.
RoundOver == pc = "idle" /\ round > 0

\* What participant p has won or lost since play_hand was entered.
Net(p) == bankroll[p] - start_bankroll[p]

\* The card at a recorded place.
CardAt(place) ==
    IF place[1] = DealerSeat THEN dealer[place[2]] ELSE hands[place[1]][place[2]]

\* The Hi-Lo weights of the recorded cards, added up.
RECURSIVE SeenWeight(_)
SeenWeight(log) ==
    IF log = <<>> THEN 0 ELSE HiLo(CardAt(Head(log))) + SeenWeight(Tail(log))

\* floor(0.75 x initial size) of a shoe of num decks.
ClaimCut(num) == (3 * 52 * num) \div 4

ClaimFull(num) == [v \in Values |-> IF v = 10 THEN 16 * num ELSE 4 * num]

C2_NaturalPaidOnce ==
    RoundOver /\ ~is_blackjack(dealer) =>
        \A p \in Players :
            is_blackjack(hands[p]) => 2 * Net(p) = 3 * current_bet[p]

\* C3: a dealer blackjack ends the round after the initial deal: nobody
\* holds more than two cards, the participants never get a turn, a natural
\* blackjack nets 0 and every other hand nets minus its bet.
C3_DealerBlackjackEndsRound ==
    /\ pc \in {"players", "draw"} => ~is_blackjack(dealer)
    /\ RoundOver /\ is_blackjack(dealer) =>
        /\ Len(dealer) = 2
        /\ \A p \in Players :
            /\ Len(hands[p]) = 2
            /\ Net(p) = IF Len(hands[p]) = 2 /\ get_value(hands[p]) = 21
                        THEN 0 ELSE -current_bet[p]

\* C3 witness: the dealer has a blackjack, the first participant too, and
\* the second one does not and has a bet to lose.
C3_Witness ==
    /\ RoundOver /\ is_blackjack(dealer)
    /\ is_blackjack(hands[1]) /\ current_bet[1] > 0 /\ Net(1) = 0
    /\ ~is_blackjack(hands[2]) /\ current_bet[2] > 0

\* C4: without dealer blackjack, a hand that is no natural blackjack nets
\* -B when it busted or is below the dealer's unbusted total, 0 when the
\* totals are equal, +B when the dealer busted or the hand is above the
\* dealer; B is the final bet.
C4_SettlementOutcome ==
    RoundOver /\ ~is_blackjack(dealer) =>
        \A p \in Players :
            ~is_blackjack(hands[p]) =>
                LET B  == current_bet[p]
                    pv == get_value(hands[p])
                    dv == get_value(dealer)
                IN  /\ (pv > 21 \/ (dv <= 21 /\ pv < dv)) => Net(p) = -B
                    /\ (pv <= 21 /\ dv <= 21 /\ pv = dv) => Net(p) = 0
                    /\ (pv <= 21 /\ (dv > 21 \/ pv > dv)) => Net(p) = B
                    /\ Net(p) \in {-B, 0, B}

\* C4 witness: a round in which one participant doubled and won and the
\* other one pushed.
C4_Witness ==
    /\ RoundOver /\ ~is_blackjack(dealer)
    /\ \E p, q \in Players :
        /\ Len(hands[p]) = 3 /\ current_bet[p] > MIN_BET * Scale
        /\ Net(p) = current_bet[p]
        /\ ~is_blackjack(hands[q]) /\ get_value(hands[q]) = get_value(dealer)
        /\ current_bet[q] > 0 /\ Net(q) = 0

\* The bet the claim gives participant p for running count rc, n cards in
\* the shoe and the bankroll bank: tc = rc / max(1, n / 52) = 52 rc / max(52, n).
ClaimBet(p, rc, n, bank) ==
    LET den == IF n > 52 THEN n ELSE 52
        ramp == 52 * rc >= 2 * den
        floortc == (52 * rc) \div den
        mult == IF floortc > 5 THEN 5 ELSE IF floortc < 1 THEN 1 ELSE floortc
        want == IF Strategies[p] = "card_counter" /\ ramp
                THEN 10 * Scale * mult ELSE 10 * Scale
    IN IF bank < want THEN bank ELSE want

RECURSIVE MinTotal(_)
MinTotal(h) ==
    IF h = <<>> THEN 0
    ELSE (IF Head(h) = 11 THEN 1 ELSE Head(h)) + MinTotal(Tail(h))

\* The hand holds an Ace that its total still counts as 11.
ClaimSoft(h) == (\E i \in 1..Len(h) : h[i] = 11) /\ MinTotal(h) + 10 <= 21

\* The tables of the specification: soft hands, hard hands; n is the
\* number of cards of the hand.
SoftTable(total, n, up) ==
    CASE total >= 19 -> "stand"
      [] total = 18 ->
            IF up \in {2, 7, 8} THEN "stand"
            ELSE IF up \in 3..6 THEN (IF n = 2 THEN "double" ELSE "stand")
            ELSE "hit"
      [] total = 17 ->
            IF up \in 3..6 /\ n = 2 THEN "double" ELSE "hit"
      [] total \in 15..16 ->
            IF up \in 4..6 /\ n = 2 THEN "double" ELSE "hit"
      [] total \in 13..14 ->
            IF up \in 5..6 /\ n = 2 THEN "double" ELSE "hit"
      [] OTHER -> "hit"

HardTable(total, n, up) ==
    CASE total >= 17 -> "stand"
      [] total \in 13..16 -> IF up \in 2..6 THEN "stand" ELSE "hit"
      [] total = 12 -> IF up \in 4..6 THEN "stand" ELSE "hit"
      [] total = 11 -> IF n = 2 THEN "double" ELSE "hit"
      [] total = 10 -> IF up <= 9 /\ n = 2 THEN "double" ELSE "hit"
      [] total = 9 -> IF up \in 3..6 /\ n = 2 THEN "double" ELSE "hit"
      [] OTHER -> "hit"

\* C6: make_decision returns the action of the tables, the soft table
\* exactly for a hand with an Ace still counted as 11 and the hard table
\* otherwise.
C6_DecisionTables ==
    probe.call = "make_decision" =>
        probe.decision =
            IF ClaimSoft(probe.cards)
            THEN SoftTable(get_value(probe.cards), Len(probe.cards), probe.up)
            ELSE HardTable(get_value(probe.cards), Len(probe.cards), probe.up)

\* C7: a card drawn by a participant in its turn (hit or double) is added
\* with its Hi-Lo weight to the running count of every card_counter.
C7_EveryCounterSeesPlayerDraws ==
    [][(/\ pc = "players" /\ pc' = "players" /\ turn \in Players
        /\ Len(hands'[turn]) = Len(hands[turn]) + 1) =>
            \A p \in Counters :
                running_count'[p] =
                    running_count[p] + HiLo(hands'[turn][Len(hands'[turn])])
      ]_vars

\* How often the place is in the record.
RECURSIVE Times(_, _)
Times(log, place) ==
    IF log = <<>> THEN 0
    ELSE (IF Head(log) = place THEN 1 ELSE 0) + Times(Tail(log), place)

HolePlace == <<DealerSeat, 2>>

\* The round was not ended by a dealer blackjack and some hand is not busted.
DealerTakesTurn ==
    /\ ~(Len(dealer) = 2 /\ get_value(dealer) = 21)
    /\ \E p \in Players : get_value(hands[p]) <= 21

\* C8: while a round runs and when it is over, a card_counter's running
\* count is its count at the start of the round plus the weights of the
\* cards it has counted; the hole card is among them at most once, only
\* once the participants have played, and before every card the dealer
\* draws; when the round is over the hole card has been counted exactly
\* once if the dealer took a turn, and otherwise no dealer card but the
\* upcard has been counted.
C8_HoleCardCountedOnReveal ==
    [](\A p \in Counters :
        LET log == observed[p] IN
        /\ pc \notin {"bet", "clear", "crashed"} =>
               running_count[p] = start_count[p] + SeenWeight(log)
        /\ Times(log, HolePlace) <= 1
        /\ Times(log, HolePlace) = 1 => pc \in {"draw", "idle", "bet", "clear"}
        /\ \A i \in 1..Len(log) :
               (log[i][1] = DealerSeat /\ log[i][2] > 2) =>
                   \E j \in 1..(i - 1) : log[j] = HolePlace
        /\ pc = "draw" => Times(log, HolePlace) = 1
        /\ RoundOver =>
               IF DealerTakesTurn
               THEN Times(log, HolePlace) = 1
               ELSE \A i \in 1..Len(log) :
                        log[i][1] = DealerSeat => log[i][2] = 1)

\* C8 witness: a finished round in which the dealer drew and the counter
\* counted the hole card, of weight other than 0, once.
C8_Witness ==
    /\ RoundOver /\ DealerTakesTurn /\ Len(dealer) >= 3
    /\ \E p \in Counters :
        /\ Times(observed[p], HolePlace) = 1
        /\ running_count[p] = start_count[p] + SeenWeight(observed[p])

\* C9: a draw from an empty shoe never hands out a sentinel that is then
\* appended to a hand: no participant's hand and not the dealer's ever
\* holds the value Deck.deal returns for an empty shoe.
C9_EmptyShoeFailsLoudly ==
    /\ \A i \in 1..Len(dealer) : dealer[i] # None
    /\ \A p \in Players : \A i \in 1..Len(hands[p]) : hands[p][i] # None

\* The totals of a hand with k of its Aces counted as 11.
ClaimTotals(h) ==
    LET aces == Cardinality({i \in 1..Len(h) : h[i] = 11})
    IN {MinTotal(h) + 10 * k : k \in 0..aces}

\* The largest total not above 21, or the total with every Ace as 1.
BestTotal(h) ==
    LET ok == {t \in ClaimTotals(h) : t <= 21}
    IN IF ok = {} THEN MinTotal(h)
       ELSE CHOOSE t \in ok : \A u \in ok : u <= t

\* The hand with the cards at i and j exchanged.
Swap(h, i, j) ==
    [k \in 1..Len(h) |-> IF k = i THEN h[j] ELSE IF k = j THEN h[i] ELSE h[k]]

\* C10: get_value is the largest total not above 21 that counting each Ace
\* as 1 or 11 gives, or the total with every Ace as 1 when there is none,
\* and the hand with any two cards exchanged has the same value.
C10_BestTotal ==
    probe.call = "get_value" =>
        /\ probe.value = BestTotal(probe.cards)
        /\ \A i, j \in 1..Len(probe.cards) :
               get_value(Swap(probe.cards, i, j)) = probe.value

\* C10 witness: two Aces and a nine make 21.
C10_Witness ==
    /\ probe.call = "get_value"
    /\ probe.cards = <<11, 11, 9>>
    /\ probe.value = 21

\* C11: a participant whose policy answers double holds exactly two cards;
\* the step adds min(current bet, bankroll) to its bet and takes it from its
\* bankroll, takes one card from the shoe into the hand, which then has
\* three cards, and passes the turn on; no other step of the participants'
\* turns changes a bet, and no hand but the one whose turn it is changes,
\* so a hand that doubled is never asked or dealt to again.
C11_DoubleEndsTurn ==
    [][/\ (pc = "players" /\ turn \in Players /\ num_decks >= 1) =>
            LET h == hands[turn]
                bet == current_bet[turn]
                bank == bankroll[turn]
                add == IF bet < bank THEN bet ELSE bank
                doubles == /\ ~(Len(h) = 2 /\ get_value(h) = 21)
                           /\ make_decision(h, dealer[1]) = "double"
            IN  /\ doubles =>
                    /\ Len(h) = 2
                    /\ current_bet' = [current_bet EXCEPT ![turn] = bet + add]
                    /\ bankroll' = [bankroll EXCEPT ![turn] = bank - add]
                    /\ DeckLen(cards') = DeckLen(cards) - 1
                    /\ Len(hands'[turn]) = 3
                    /\ SubSeq(hands'[turn], 1, 2) = h
                    /\ turn' = turn + 1
                    /\ pc' = "players"
                /\ ~doubles => current_bet' = current_bet
       /\ pc \in {"players", "draw"} =>
            \A p \in Players : p # turn => hands'[p] = hands[p]
      ]_vars

\* C11 witness: the first participant has doubled with less money left than
\* its bet: the bet is everything it had, the hand has three cards and the
\* turn has passed to the second participant.
C11_Witness ==
    /\ pc = "players" /\ turn = 2
    /\ Len(hands[1]) = 3
    /\ current_bet[1] > MIN_BET * Scale
    /\ current_bet[1] = start_bankroll[1]
    /\ bankroll[1] = 0

\* The dealer's total stayed below 17 as long as it went on drawing.
DrewBelow17(d) == \A k \in 2..(Len(d) - 1) : get_value(SubSeq(d, 1, k)) < 17

SomeHandStands == \E p \in Players : get_value(hands[p]) <= 21

\* C12: without dealer blackjack, the dealer draws only when some hand is
\* not busted after the participants' turns, and then exactly while its
\* total is below 17: at settlement and afterwards its total is >= 17 and
\* was below 17 before every card it drew; when every hand is busted the
\* dealer keeps its two cards and every participant is down by exactly its
\* bet, as it was when its turn ended.
C12_DealerDrawsBelow17 ==
    /\ pc = "draw" =>
        /\ ~is_blackjack(dealer)
        /\ SomeHandStands
        /\ DrewBelow17(dealer)
    /\ (Len(dealer) > 2 /\ num_decks >= 1) =>
        pc \in {"draw", "idle", "bet", "clear"}
    /\ (RoundOver /\ ~is_blackjack(dealer)) =>
        IF SomeHandStands
        THEN /\ get_value(dealer) >= 17
             /\ DrewBelow17(dealer)
        ELSE /\ Len(dealer) = 2
             /\ \A p \in Players : Net(p) = -current_bet[p]

\* C12 witness: every hand busted with money at stake and the round is
\* over; the dealer, whose two cards are below 17, has not drawn.
C12_Witness ==
    /\ RoundOver /\ ~is_blackjack(dealer)
    /\ ~SomeHandStands
    /\ \A p \in Players : current_bet[p] > 0
    /\ Len(dealer) = 2 /\ get_value(dealer) < 17

C14_RebuildAfter75Percent ==
    [][(/\ pc = "idle" /\ num_decks >= 1
        /\ DeckLen(cards') > DeckLen(cards)) =>
            4 * (52 * num_decks - DeckLen(cards)) >= 3 * 52 * num_decks
      ]_vars

\* The Hi-Lo weight the specification gives a card value.
ClaimWeight(v) == IF v \in 2..6 THEN 1 ELSE IF v \in 7..9 THEN 0 ELSE -1

\* The weights of the first n cards of a hand.
ClaimWeights(h, n) ==
    (IF n >= 1 /\ Len(h) >= 1 THEN ClaimWeight(h[1]) ELSE 0)
    + (IF n >= 2 /\ Len(h) >= 2 THEN ClaimWeight(h[2]) ELSE 0)

\* C15: the initial deal hands out one card at a time in the order
\* participant 1..P, dealer, twice, so that when it is over every hand and
\* the dealer hold exactly two cards; during the deal and when it is over
\* each card_counter's running_count is its count before the deal plus the
\* weights of its own cards and of the dealer's first card, and the hole
\* card adds nothing.
C15_InitialDeal ==
    num_decks >= 1 =>
        /\ pc = "deal" =>
            /\ Len(dealer) <= 2
            /\ \A p \in Players :
                /\ Len(dealer) <= Len(hands[p])
                /\ Len(hands[p]) <= Len(dealer) + 1
                /\ \A q \in Players : p < q => Len(hands[q]) <= Len(hands[p])
        /\ pc = "peek" =>
            Len(dealer) = 2 /\ \A p \in Players : Len(hands[p]) = 2
        /\ pc \in {"deal", "peek"} =>
            \A p \in Players :
                running_count[p] =
                    IF p \in Counters
                    THEN start_count[p] + ClaimWeights(hands[p], 2)
                                        + ClaimWeights(dealer, 1)
                    ELSE start_count[p]

\* C15 witness: the deal is over in a shoe's second round; the counter's
\* count has moved and the hole card has a weight other than 0.
C15_Witness ==
    /\ pc = "peek" /\ round = 2 /\ num_decks >= 1
    /\ ClaimWeight(dealer[2]) # 0
    /\ ClaimWeight(dealer[2]) # ClaimWeight(dealer[1])
    /\ \E p \in Counters :
        /\ start_count[p] # 0
        /\ running_count[p] # start_count[p]

\* How far a round is from its end: the phases in their order, the cards
\* still to deal, the seats still to play, and the room the hand in play
\* has left below the largest total a hand can reach.
RoundVariant ==
    CASE pc = "bet" -> 1000
      [] pc = "clear" -> 900
      [] pc = "deal" -> 800 - dealt
      [] pc = "peek" -> 700
      [] pc = "players" ->
            IF turn \in Players
            THEN 300 + 100 * (DealerSeat - turn) + (50 - MinTotal(hands[turn]))
            ELSE 250
      [] pc = "draw" -> 100 + (50 - MinTotal(dealer))
      [] OTHER -> 0

\* The loops of a round are where they can go on or end: the deal has a
\* card left to hand out, the seat in turn exists, its hand is not busted
\* and its policy answers with one of the three actions, and the dealer
\* was below 17 before the last card it drew.
RoundCanStep ==
    /\ pc \in {"idle", "bet", "clear", "deal", "peek", "players", "draw",
               "crashed"}
    /\ pc = "deal" => dealt < 2 * DealerSeat
    /\ pc = "players" =>
        /\ turn \in 1..DealerSeat
        /\ turn \in Players =>
            /\ MinTotal(hands[turn]) <= 21
            /\ make_decision(hands[turn], dealer[1])
                   \in {"hit", "stand", "double"}
    /\ (pc = "draw" /\ Len(dealer) > 2) =>
        get_value(SubSeq(dealer, 1, Len(dealer) - 1)) < 17

\* C16: a round that has been entered comes to its end: every step of a
\* round brings it nearer to its end by a measure that never goes below 0,
\* whatever card is drawn and whatever the bets are; no hit loop goes on
\* past a bust and no dealer loop past 17; and the only way a round ends
\* without returning is the failed draw of a game without cards.
C16_RoundTerminates ==
    [][/\ pc \notin {"idle", "crashed"} =>
            RoundVariant' < RoundVariant /\ RoundVariant' >= 0
       /\ pc' = "crashed" => num_decks = 0
       /\ RoundCanStep /\ RoundCanStep'
      ]_vars

\* C16 witness: a round has ended in which a participant without money
\* played with bet 0 and drew, and the dealer drew too.
C16_Witness ==
    /\ RoundOver /\ round = 2
    /\ Len(dealer) >= 3
    /\ \E p \in Players :
        current_bet[p] = 0 /\ start_bankroll[p] = 0 /\ Len(hands[p]) >= 3

\* The weights the specification gives the recorded cards, added up.
RECURSIVE ClaimSeenWeight(_)
ClaimSeenWeight(log) ==
    IF log = <<>> THEN 0
    ELSE ClaimWeight(CardAt(Head(log))) + ClaimSeenWeight(Tail(log))

\* The cards of weight +1 and of weight -1 that have left the shoe since it
\* was built.
LowGone == 5 * 4 * num_decks - (cards[2] + cards[3] + cards[4] + cards[5] + cards[6])

HighGone == 5 * 4 * num_decks - (cards[10] + cards[11])

\* C17: a card_counter's running_count is the sum of the weights (+1 for
\* 2..6, 0 for 7..9, -1 for ten-valued cards and Aces) of the cards it has
\* counted since the shoe was last built: within a round it is the count
\* the round started with plus the weights of the places counted, no place
\* twice; a round starts with the count the last one ended with, or with 0
\* on a full shoe; over the rounds it never exceeds the cards of either
\* sign that have left the shoe, so it stays within 20 x num_decks; a
\* basic participant's running_count and true_count are always 0.
C17_RunningCountIsSumOfObserved ==
    [](\A p \in Players :
        IF p \in Counters
        THEN LET log == observed[p] IN
             /\ pc \notin {"bet", "clear", "crashed"} =>
                    running_count[p] = start_count[p] + ClaimSeenWeight(log)
             /\ pc \in {"bet", "clear"} => running_count[p] = start_count[p]
             /\ \A i, j \in 1..Len(log) : i # j => log[i] # log[j]
             /\ running_count[p] <= LowGone
             /\ -running_count[p] <= HighGone
             /\ running_count[p] <= 20 * num_decks
             /\ -running_count[p] <= 20 * num_decks
        ELSE running_count[p] = 0 /\ true_count[p].num = 0)

\* C17 witness: in the second round on the same shoe a card_counter that
\* came in with a count other than 0 has counted its cards, the upcard, the
\* hole card and a card the dealer drew, and its count has moved.
C17_Witness ==
    /\ round = 2 /\ pc = "draw" /\ Len(dealer) >= 3
    /\ \E p \in Counters :
        /\ start_count[p] # 0
        /\ Len(observed[p]) >= 5
        /\ running_count[p] # start_count[p]
        /\ running_count[p] # 0

\* C18: no bankroll and no bet is ever below 0; what a participant has bet
\* in a round, the double included, is never more than it held when the
\* round began and, until it is paid, exactly what its bankroll is short
\* of; a participant that held nothing plays with bet 0.
C18_NeverBelowZero ==
    \A p \in Players :
        /\ bankroll[p] >= 0
        /\ current_bet[p] >= 0
        /\ (round > 0 /\ pc # "bet") =>
            /\ current_bet[p] <= start_bankroll[p]
            /\ start_bankroll[p] = 0 => current_bet[p] = 0
        /\ (pc \in {"deal", "peek", "players", "draw"}
               /\ ~(Len(hands[p]) = 2 /\ get_value(hands[p]) = 21)) =>
            bankroll[p] = start_bankroll[p] - current_bet[p]

\* C18 witness: a participant that lost everything in the first round has
\* been dealt a hand in the second one, with bet 0 and bankroll 0, while
\* the other one has money at stake.
C18_Witness ==
    /\ round = 2 /\ pc = "players"
    /\ \E p, q \in Players :
        /\ start_bankroll[p] = 0 /\ current_bet[p] = 0 /\ bankroll[p] = 0
        /\ Len(hands[p]) = 2
        /\ current_bet[q] > 0

====
